---- MODULE Spec2Model ----
(***************************************************************************)
(* Model of moncli/types.py: the column-value converters (MondayType and   *)
(* its subclasses).  One converter instance is constructed and then driven *)
(* through to_native, to_primitive, value_changed and the validate hooks.  *)
(*                                                                         *)
(* Python values are tagged records [t |-> <type name>, v |-> <content>].  *)
(* JSON texts are written with ' in place of the double quote.             *)
(***************************************************************************)
EXTENDS Integers, Sequences, FiniteSets, TLC

VARIABLES
    kind,            \* the converter class of the instance, "none" before construction
    metadata,        \* self.metadata: a dict, modelled as a function on its keys
    original_value,  \* self.original_value
    native_type,     \* self.native_type (class attribute, overridden per instance)
    data_mapping,    \* self._data_mapping: Unset when the attribute was never assigned
    wrapped,         \* self._type of a Mirror / self.type of a Subitems
    local_offset,    \* the UTC offset, in hours, of the time zone the process runs under
    last,            \* the most recent call: [op, arg, out]
    returned_native, \* history: the value returned by the latest to_native on a payload
    decoded_payload, \* history: that payload
    app_week         \* a WeekType.Week object held by the application, Unset before it is built

vars == <<kind, metadata, original_value, native_type, data_mapping, wrapped,
          local_offset, last, returned_native, decoded_payload, app_week>>

---------------------------------------------------------------------------
(* Python values *)

None == [t |-> "None", v |-> 0]
Str(s) == [t |-> "str", v |-> s]
Bool(b) == [t |-> "bool", v |-> b]
PyInt(i) == [t |-> "int", v |-> i]
\* a float, held in tenths: Float(35) is 3.5
Float(x) == [t |-> "float", v |-> x]
List(s) == [t |-> "list", v |-> s]
Dict(f) == [t |-> "dict", v |-> f]
Enum(n) == [t |-> "enum", v |-> n]
\* a datetime: day number (0 is Monday 2024-01-01), hour of the day, whether it
\* carries a tzinfo, and then its UTC offset in hours (0 when naive)
DateTime(d, h, aware, off) ==
    [t |-> "datetime", v |-> [day |-> d, hour |-> h, aware |-> aware, off |-> off]]
Unset == [t |-> "unset", v |-> 0]

EmptyDict == Dict(<<>>)
EmptyList == List(<<>>)

\* a column payload, cv.ColumnValue
ColumnValue(id, title, text, value, settings_str, additional_info) ==
    [t |-> "ColumnValue",
     v |-> [id |-> id, title |-> title, text |-> text, value |-> value,
            settings_str |-> settings_str, additional_info |-> additional_info]]

\* the outcome of a call
Ret(x) == [k |-> "return", v |-> x]
Raise(e) == [k |-> "raise", v |-> Str(e)]

IsDict(x) == x.t = "dict"
IsList(x) == x.t = "list"
IsStr(x) == x.t = "str"
HasKey(d, key) == key \in DOMAIN d.v
Get(d, key) == d.v[key]
DictSet(f, key, val) == [x \in DOMAIN f \cup {key} |-> IF x = key THEN val ELSE f[x]]
DictDel(f, key) == [x \in DOMAIN f \ {key} |-> f[x]]

\* bool(x) / "not x"
Truthy(x) ==
    CASE x.t = "None" -> FALSE
      [] x.t = "bool" -> x.v
      [] x.t \in {"int", "float"} -> x.v # 0
      [] x.t = "str" -> x.v # ""
      [] x.t = "list" -> Len(x.v) > 0
      [] x.t = "dict" -> DOMAIN x.v # {}
      [] OTHER -> TRUE

IsNumeric(x) == x.t \in {"bool", "int", "float"}
\* the numeric value, in tenths
Tenths(x) ==
    CASE x.t = "bool" -> (IF x.v THEN 10 ELSE 0)
      [] x.t = "int" -> 10 * x.v
      [] OTHER -> x.v

\* x == y.  Numbers compare by value across bool, int and float; the value
\* classes of this module (Email, Timeline, Week, PersonOrTeam) define no __eq__.
PyEq(x, y) ==
    IF IsNumeric(x) /\ IsNumeric(y) THEN Tenths(x) = Tenths(y)
    ELSE x.t = y.t /\ x.v = y.v

\* x in [a, b]
InPair(x, a, b) == PyEq(x, a) \/ PyEq(x, b)

---------------------------------------------------------------------------
(* Text conversions: json, strptime/strftime, int/float/str *)

\* json.loads of the texts the model decodes
JsonTable ==
    ("{}" :> EmptyDict)
    @@ ("null" :> None)
    @@ ("''" :> Str(""))
    @@ ("'3'" :> Str("3"))
    @@ ("'3.5'" :> Str("3.5"))
    @@ ("'3.0'" :> Str("3.0"))
    @@ ("'abc'" :> Str("abc"))
    @@ ("'hello'" :> Str("hello"))
    @@ ("{'checked':'true'}" :> Dict([checked |-> Str("true")]))
    @@ ("{'checked':'false'}" :> Dict([checked |-> Str("false")]))
    @@ ("{'checked':'true','changed_at':'2024-01-15T10:00:00.000Z'}" :>
            Dict([checked |-> Str("true"), changed_at |-> Str("2024-01-15T10:00:00.000Z")]))
    @@ ("{'email':'a@b.co','text':'Al'}" :>
            Dict([email |-> Str("a@b.co"), text |-> Str("Al")]))
    @@ ("{'email':'a@b.co','text':''}" :>
            Dict([email |-> Str("a@b.co"), text |-> Str("")]))
    @@ ("{'email':'a@b.co'}" :> Dict([email |-> Str("a@b.co")]))
    @@ ("{'text':'hello'}" :> Dict([text |-> Str("hello")]))
    @@ ("{'from':'2024-01-15','to':'2024-01-17'}" :>
            Dict([from |-> Str("2024-01-15"), to |-> Str("2024-01-17")]))
    @@ ("{'from':'2024-01-17','to':'2024-01-15'}" :>
            Dict([from |-> Str("2024-01-17"), to |-> Str("2024-01-15")]))
    @@ ("{'from':'2024-01-15'}" :> Dict([from |-> Str("2024-01-15")]))
    @@ ("{'week':{'startDate':'2024-01-15','endDate':'2024-01-21'}}" :>
            Dict([week |-> Dict([startDate |-> Str("2024-01-15"),
                                 endDate |-> Str("2024-01-21")])]))
    @@ ("{'week':{'startDate':'2024-01-17','endDate':'2024-01-23'}}" :>
            Dict([week |-> Dict([startDate |-> Str("2024-01-17"),
                                 endDate |-> Str("2024-01-23")])]))
    @@ ("{'week':''}" :> Dict([week |-> Str("")]))
    @@ ("{'date':'2024-01-15','time':null}" :>
            Dict([date |-> Str("2024-01-15"), time |-> None]))
    @@ ("{'date':'2024-01-15','time':'03:00:00'}" :>
            Dict([date |-> Str("2024-01-15"), time |-> Str("03:00:00")]))
    @@ ("{'date':'2024-01-15','time':'22:00:00'}" :>
            Dict([date |-> Str("2024-01-15"), time |-> Str("22:00:00")]))
    @@ ("{'date':'soon','time':null}" :> Dict([date |-> Str("soon"), time |-> None]))
    @@ ("{'linkedPulseIds':[{'linkedPulseId':11},{'linkedPulseId':12}]}" :>
            Dict([linkedPulseIds |-> List(<<Dict([linkedPulseId |-> PyInt(11)]),
                                            Dict([linkedPulseId |-> PyInt(12)])>>)]))
    @@ ("{'linkedPulseIds':[{'linkedPulseId':12}]}" :>
            Dict([linkedPulseIds |-> List(<<Dict([linkedPulseId |-> PyInt(12)])>>)]))
    @@ ("{'ids':[1]}" :> Dict([ids |-> List(<<PyInt(1)>>)]))
    @@ ("{'ids':[1,2]}" :> Dict([ids |-> List(<<PyInt(1), PyInt(2)>>)]))
    @@ ("{'index':0}" :> Dict([index |-> PyInt(0)]))
    @@ ("{'personsAndTeams':[{'id':1,'kind':'person'}]}" :>
            Dict([personsAndTeams |->
                    List(<<Dict([id |-> PyInt(1), kind |-> Str("person")])>>)]))
    @@ ("{'labels':[{'id':1,'name':'Done'},{'id':2,'name':'Todo'}]}" :>
            Dict([labels |-> List(<<Dict([id |-> PyInt(1), name |-> Str("Done")]),
                                    Dict([id |-> PyInt(2), name |-> Str("Todo")])>>)]))
    @@ ("{'labels':{'0':'Done'}}" :> Dict([labels |-> Dict([x \in {"0"} |-> Str("Done")])]))
    @@ ("{'id':'','title':''}" :> Dict([id |-> Str(""), title |-> Str("")]))
    @@ ("{'allowMultipleValues':true}" :> Dict([allowMultipleValues |-> Bool(TRUE)]))
    @@ ("{'allowMultipleValues':false}" :> Dict([allowMultipleValues |-> Bool(FALSE)]))
    @@ ("{'allowMultipleItems':false}" :> Dict([allowMultipleItems |-> Bool(FALSE)]))
    @@ ("{'max_people_allowed':'1'}" :> Dict([max_people_allowed |-> Str("1")]))

\* json.loads(x): a TypeError for a non-string, a JSONDecodeError (a ValueError)
\* for text that is not JSON
JsonLoads(x) ==
    IF x.t # "str" THEN Raise("TypeError")
    ELSE IF x.v \in DOMAIN JsonTable THEN Ret(JsonTable[x.v])
    ELSE Raise("JSONDecodeError")

\* DATE_FORMAT texts of the days 0 .. 27
DateNames == <<"2024-01-01", "2024-01-02", "2024-01-03", "2024-01-04", "2024-01-05", "2024-01-06", "2024-01-07", "2024-01-08", "2024-01-09", "2024-01-10", "2024-01-11", "2024-01-12", "2024-01-13", "2024-01-14", "2024-01-15", "2024-01-16", "2024-01-17", "2024-01-18", "2024-01-19", "2024-01-20", "2024-01-21", "2024-01-22", "2024-01-23", "2024-01-24", "2024-01-25", "2024-01-26", "2024-01-27", "2024-01-28">>
\* TIME_FORMAT texts of the whole hours
TimeNames == <<"00:00:00", "01:00:00", "02:00:00", "03:00:00", "04:00:00", "05:00:00", "06:00:00", "07:00:00", "08:00:00", "09:00:00", "10:00:00", "11:00:00", "12:00:00", "13:00:00", "14:00:00", "15:00:00", "16:00:00", "17:00:00", "18:00:00", "19:00:00", "20:00:00", "21:00:00", "22:00:00", "23:00:00">>

\* datetime.strptime(x, DATE_FORMAT): a naive datetime at midnight
ParseDate(x) ==
    IF x.t # "str" THEN Raise("TypeError")
    ELSE IF \E i \in DOMAIN DateNames : DateNames[i] = x.v
         THEN Ret(DateTime((CHOOSE i \in DOMAIN DateNames : DateNames[i] = x.v) - 1,
                           0, FALSE, 0))
         ELSE Raise("ValueError")

\* datetime.strptime(x, TIME_FORMAT).hour
ParseHour(x) ==
    IF x.t # "str" THEN Raise("TypeError")
    ELSE IF \E i \in DOMAIN TimeNames : TimeNames[i] = x.v
         THEN Ret(PyInt((CHOOSE i \in DOMAIN TimeNames : TimeNames[i] = x.v) - 1))
         ELSE Raise("ValueError")

\* datetime.strftime(x, DATE_FORMAT) and datetime.strftime(x, TIME_FORMAT)
FormatDate(x) ==
    IF x.t # "datetime" THEN Raise("TypeError") ELSE Ret(Str(DateNames[x.v.day + 1]))
FormatTime(x) ==
    IF x.t # "datetime" THEN Raise("TypeError") ELSE Ret(Str(TimeNames[x.v.hour + 1]))

\* the decimal texts of the integers and floats the model converts
IntNames == (0 :> "0") @@ (1 :> "1") @@ (2 :> "2") @@ (3 :> "3") @@ (11 :> "11") @@ (12 :> "12")
FloatNames == (30 :> "3.0") @@ (35 :> "3.5")

\* float(x), in tenths
ToFloat(x) ==
    IF IsNumeric(x) THEN Ret(Float(Tenths(x)))
    ELSE IF x.t # "str" THEN Raise("TypeError")
    ELSE IF \E i \in DOMAIN IntNames : IntNames[i] = x.v
         THEN Ret(Float(10 * (CHOOSE i \in DOMAIN IntNames : IntNames[i] = x.v)))
    ELSE IF \E f \in DOMAIN FloatNames : FloatNames[f] = x.v
         THEN Ret(Float(CHOOSE f \in DOMAIN FloatNames : FloatNames[f] = x.v))
    ELSE Raise("ValueError")

\* int(x): truncation of a number, the integer a decimal integer text denotes
ToInt(x) ==
    IF IsNumeric(x) THEN Ret(PyInt(Tenths(x) \div 10))
    ELSE IF x.t # "str" THEN Raise("TypeError")
    ELSE IF \E i \in DOMAIN IntNames : IntNames[i] = x.v
         THEN Ret(PyInt(CHOOSE i \in DOMAIN IntNames : IntNames[i] = x.v))
    ELSE Raise("ValueError")

\* str(x) of the strings and numbers the model converts
ToStr(x) ==
    CASE x.t = "str" -> x
      [] x.t = "int" -> Str(IntNames[x.v])
      [] x.t = "float" -> Str(FloatNames[x.v])
      [] x.t = "bool" -> Str(IF x.v THEN "True" ELSE "False")
      [] OTHER -> Str("<object>")

\* text.split(', ') of the label texts the model decodes
SplitTable ==
    ("Done" :> <<Str("Done")>>)
    @@ ("Done, Todo" :> <<Str("Done"), Str("Todo")>>)
    @@ ("Todo, Done" :> <<Str("Todo"), Str("Done")>>)
    @@ ("Unknown" :> <<Str("Unknown")>>)
    @@ ("Done, Unknown" :> <<Str("Done"), Str("Unknown")>>)
Split(x) ==
    IF x.t # "str" THEN Raise("AttributeError")
    ELSE IF x.v \in DOMAIN SplitTable THEN Ret(List(SplitTable[x.v]))
    ELSE Ret(List(<<x>>))

---------------------------------------------------------------------------
(* The converter classes: class attributes and construction *)

Kinds ==
    {"MondayType", "MondaySimpleType", "MondayComplexType", "CheckboxType", "DateType",
     "DropdownType", "EmailType", "ItemLinkType", "LongTextType", "MirrorType",
     "NumberType", "PeopleType", "StatusType", "SubitemsType", "TextType",
     "TimelineType", "WeekType"}

\* the class attribute null_value
null_value(k) ==
    CASE k = "MondayType" -> None
      [] k \in {"MondaySimpleType", "NumberType", "TextType"} -> Str("")
      [] OTHER -> Str("{}")

\* the class attribute allow_casts, as the type tags isinstance accepts
\* (bool is a subclass of int)
allow_casts(k) ==
    CASE k = "CheckboxType" -> {"str", "int", "bool"}
      [] k = "DropdownType" -> {"str", "enum"}
      [] OTHER -> {}

\* the class attribute native_type
class_native_type(k) ==
    CASE k = "CheckboxType" -> "bool"
      [] k = "DateType" -> "datetime"
      [] k \in {"DropdownType", "ItemLinkType", "PeopleType", "SubitemsType"} -> "list"
      [] k = "EmailType" -> "Email"
      [] k \in {"LongTextType", "StatusType", "TextType"} -> "str"
      [] k = "TimelineType" -> "Timeline"
      [] k = "WeekType" -> "Week"
      [] OTHER -> "None"

\* the keyword argument default: DropdownType passes default=[]
default(k) == IF k = "DropdownType" THEN EmptyList ELSE None

\* the converter instance as one value
Self == [kind |-> kind, metadata |-> metadata, original_value |-> original_value,
         native_type |-> native_type, data_mapping |-> data_mapping, wrapped |-> wrapped]

\* the result of a call: the instance after it and what it returned or raised
Done(self, out) == [self |-> self, out |-> out]

\* MondayType.__init__
MondayType_init(k, id, title) ==
    IF ~Truthy(id) /\ ~Truthy(title)
    THEN Done(Unset, Raise("MondayTypeError"))
    ELSE LET m0 == <<>>
             m1 == IF Truthy(id) THEN DictSet(m0, "id", id) ELSE m0
             m2 == IF Truthy(title) THEN DictSet(m1, "title", title) ELSE m1
         IN Done([kind |-> k, metadata |-> m2, original_value |-> None,
                  native_type |-> class_native_type(k), data_mapping |-> Unset,
                  wrapped |-> "none"],
                 Ret(None))

\* DropdownType.__init__
DropdownType_init(id, title, mapping) ==
    LET r == MondayType_init("DropdownType", id, title)
    IN IF r.out.k = "raise" \/ ~Truthy(mapping) THEN r
       ELSE Done([r.self EXCEPT !.data_mapping = mapping], r.out)

\* ItemLinkType.__init__
ItemLinkType_init(id, title, multiple_values) ==
    LET r == MondayType_init("ItemLinkType", id, title)
    IN IF r.out.k = "raise" THEN r
       ELSE Done([r.self EXCEPT
                    !.native_type = IF ~Truthy(multiple_values) THEN "str" ELSE @,
                    !.metadata = DictSet(@, "allowMultipleItems", multiple_values)],
                 r.out)

\* MirrorType.__init__
MirrorType_init(type, id, title) ==
    LET r == MondayType_init("MirrorType", id, title)
    IN IF r.out.k = "raise" THEN r ELSE Done([r.self EXCEPT !.wrapped = type], r.out)

\* StatusType.__init__: data_mapping.values()[0] subscripts a dict view
StatusType_init(id, title, mapping) ==
    IF Truthy(mapping) THEN Done(Unset, Raise("TypeError"))
    ELSE LET r == MondayType_init("StatusType", id, title)
         IN IF r.out.k = "raise" THEN r
            ELSE Done([r.self EXCEPT !.data_mapping = mapping], r.out)

\* SubitemsType.__init__: type is "MondayModel" for a model class
SubitemsType_init(type, id, title) ==
    IF type # "MondayModel" THEN Done(Unset, Raise("MondayTypeError"))
    ELSE LET r == MondayType_init("SubitemsType", id, title)
         IN IF r.out.k = "raise" THEN r ELSE Done([r.self EXCEPT !.wrapped = type], r.out)

\* the constructor of class k
New(k, id, title, mapping, multiple_values, type) ==
    CASE k = "DropdownType" -> DropdownType_init(id, title, mapping)
      [] k = "ItemLinkType" -> ItemLinkType_init(id, title, multiple_values)
      [] k = "MirrorType" -> MirrorType_init(type, id, title)
      [] k = "StatusType" -> StatusType_init(id, title, mapping)
      [] k = "SubitemsType" -> SubitemsType_init(type, id, title)
      [] OTHER -> MondayType_init(k, id, title)

---------------------------------------------------------------------------
(* Decoding: the _convert hooks and to_native *)

\* x[key] on a Python value
Subscript(x, key) ==
    IF IsDict(x) THEN (IF HasKey(x, key) THEN Ret(Get(x, key)) ELSE Raise("KeyError"))
    ELSE Raise("TypeError")

\* the value objects
Email(email, text) ==
    [t |-> "Email", v |-> [email |-> email, text |-> IF ~Truthy(text) THEN email ELSE text]]
Timeline(from_date, to_date) ==
    [t |-> "Timeline", v |-> [from_date |-> from_date, to_date |-> to_date]]
PersonOrTeam(id, person_kind) ==
    [t |-> "PersonOrTeam", v |-> [id |-> id, kind |-> person_kind]]

\* value - timedelta(days=n) and value + timedelta(days=n) on a datetime
PlusDays(x, n) == [x EXCEPT !.v.day = @ + n]
\* value.weekday(): Monday is 0
Weekday(x) == x.v.day % 7
\* value.isocalendar()[1] for the days of early 2024, whose week 1 starts on day 0
IsoWeek(x) == (x.v.day \div 7) + 1

\* Week._calculate_dates with the slip of moving start without end
Week_calculate_dates_start_only(week, value) ==
    IF ~Truthy(value) THEN Ret(week)
    ELSE IF value.t # "datetime" THEN Raise("TypeError")
    ELSE LET start == PlusDays(value, 0 - Weekday(value))
         IN Ret([week EXCEPT !.v.start = start,
                             !.v.week_number = PyInt(IsoWeek(start))])

\* Week._calculate_dates applied by Week.__init__ and the start/end setters:
\* the outcome holds the Week after the call
Week_calculate_dates(week, value) ==
    IF ~Truthy(value) THEN Ret(week)
    ELSE IF value.t # "datetime" THEN Raise("TypeError")
    ELSE LET start == PlusDays(value, 0 - Weekday(value))
         IN Ret([week EXCEPT !.v.start = start,
                             !.v.end = PlusDays(start, 6),
                             !.v.week_number = PyInt(IsoWeek(start))])

\* Week.__init__
Week(start, end) ==
    Week_calculate_dates(
        [t |-> "Week", v |-> [start |-> start, end |-> end, week_number |-> Unset]], start)

\* date + timedelta(hours=h) followed by .astimezone(tz) on a UTC datetime
UtcToLocal(x, h, off) ==
    LET total == x.v.hour + h + off
    IN DateTime(x.v.day + (total \div 24), total % 24, TRUE, off)

\* value.astimezone(pytz.timezone('UTC')): a naive value is taken as local time
ToUtc(x, off) ==
    LET total == x.v.hour - (IF x.v.aware THEN x.v.off ELSE off)
    IN DateTime(x.v.day + (total \div 24), total % 24, TRUE, 0)

\* MondayType._convert
MondayType_convert(self, text, data) == Ret(data)

\* CheckboxType._convert
CheckboxType_convert(self, text, data) ==
    LET c == Subscript(data, "checked")
    IN IF c.k = "raise" THEN Ret(Bool(FALSE)) ELSE Ret(Bool(Truthy(c.v)))

\* DateType._convert; off is the local UTC offset the process runs under
DateType_convert(self, text, data, off) ==
    LET d == Subscript(data, "date")
        date == IF d.k = "raise" THEN d ELSE ParseDate(d.v)
        time == Subscript(data, "time")
    IN IF date.k = "raise" THEN Ret(None)
       ELSE IF time.k = "raise" THEN date
       ELSE IF PyEq(time.v, None) THEN date
       ELSE LET utc == [date.v EXCEPT !.v.aware = TRUE]
                hour == ParseHour(time.v)
            IN IF hour.k = "raise" THEN Ret(utc)
               ELSE Ret(UtcToLocal(utc, hour.v.v, off))

\* DropdownType._convert
DropdownType_convert(self, text, data) ==
    LET labels == Split(text)
    IN IF labels.k = "raise" THEN Ret(default(self.kind))
       ELSE IF self.data_mapping = Unset THEN Raise("AttributeError")
       ELSE IF ~Truthy(self.data_mapping) THEN labels
       ELSE IF \A i \in DOMAIN labels.v.v : HasKey(self.data_mapping, labels.v.v[i].v)
            THEN Ret(List([i \in DOMAIN labels.v.v |->
                            Get(self.data_mapping, labels.v.v[i].v)]))
            ELSE Ret(default(self.kind))

\* EmailType._convert
EmailType_convert(self, text, data) ==
    IF PyEq(data, null_value(self.kind)) THEN Raise("TypeError")
    ELSE LET e == Subscript(data, "email")
             x == Subscript(data, "text")
         IN IF e.k = "raise" THEN e
            ELSE IF x.k = "raise" THEN x
            ELSE Ret(Email(e.v, x.v))

\* the property ItemLinkType.multiple_values
multiple_values(self) == Subscript(Dict(self.metadata), "allowMultipleValues")

\* ItemLinkType._convert
ItemLinkType_convert(self, text, data) ==
    LET linked == Subscript(data, "linkedPulseIds")
        wellformed == /\ linked.k = "return"
                      /\ IsList(linked.v)
                      /\ \A i \in DOMAIN linked.v.v :
                            Subscript(linked.v.v[i], "linkedPulseId").k = "return"
        ids == IF wellformed
               THEN [i \in DOMAIN linked.v.v |-> Get(linked.v.v[i], "linkedPulseId")]
               ELSE <<>>
        multi == multiple_values(self)
    IN IF multi.k = "raise" THEN multi
       ELSE IF ~Truthy(multi.v)
            THEN (IF Len(ids) > 0 THEN Ret(ToStr(ids[1])) ELSE Ret(None))
            ELSE Ret(List([i \in DOMAIN ids |-> ToStr(ids[i])]))

\* LongTextType._convert
LongTextType_convert(self, text, data) ==
    IF PyEq(data, null_value(self.kind)) THEN Ret(None) ELSE Subscript(data, "text")

\* self._convert((text, data, additional_info)) by class; no hook reads additional_info
Convert(self, text, data, off) ==
    CASE self.kind = "CheckboxType" -> CheckboxType_convert(self, text, data)
      [] self.kind = "DateType" -> DateType_convert(self, text, data, off)
      [] self.kind = "DropdownType" -> DropdownType_convert(self, text, data)
      [] self.kind = "EmailType" -> EmailType_convert(self, text, data)
      [] self.kind = "ItemLinkType" -> ItemLinkType_convert(self, text, data)
      [] self.kind = "LongTextType" -> LongTextType_convert(self, text, data)
      [] OTHER -> MondayType_convert(self, text, data)

\* self._cast(value): MondayType._cast calls native_type, DropdownType._cast
\* wraps the value in a list.  Only Checkbox (bool) and Dropdown allow casts.
Cast(self, value) ==
    IF self.kind = "DropdownType" THEN Ret(List(<<value>>))
    ELSE IF self.native_type = "bool" THEN Ret(Bool(Truthy(value)))
    ELSE Raise("TypeError")

\* MondayType._extract_metadata: the metadata after value.pop('changed_at', None),
\* unchanged when the pop raises (value is no dict)
ExtractedMetadata(m, value) ==
    IF ~IsDict(value) THEN m
    ELSE DictSet(m, "changed_at",
                 IF HasKey(value, "changed_at") THEN Get(value, "changed_at") ELSE None)
\* the decoded value after that pop
Popped(value) == IF IsDict(value) THEN Dict(DictDel(value.v, "changed_at")) ELSE value

\* for k, v in settings.items(): self.metadata[k] = v
MergedMetadata(m, settings) ==
    [x \in DOMAIN m \cup DOMAIN settings.v |->
        IF x \in DOMAIN settings.v THEN settings.v[x] ELSE m[x]]

\* RawDecode with the slip of storing the raw value as the baseline
RawDecodeStoring(self, value) ==
    IF allow_casts(self.kind) # {} /\ value.t \in allow_casts(self.kind)
    THEN Done([self EXCEPT !.original_value = value], Cast(self, value))
    ELSE Done([self EXCEPT !.original_value = value], Ret(value))

\* the branch of MondayType.to_native for a value that is no ColumnValue
RawDecode(self, value) ==
    IF allow_casts(self.kind) # {} /\ value.t \in allow_casts(self.kind)
    THEN Done(self, Cast(self, value))
    ELSE Done(self, Ret(value))

\* the branch of MondayType.to_native for a ColumnValue
PayloadDecode(self, value, off) ==
    LET cv == value.v
        s1 == [self EXCEPT !.metadata = DictSet(DictSet(@, "id", cv.id), "title", cv.title)]
        settings == IF Truthy(cv.settings_str) THEN JsonLoads(cv.settings_str)
                    ELSE Ret(EmptyDict)
    IN IF settings.k = "raise" THEN Done(s1, settings)
       ELSE IF ~IsDict(settings.v) THEN Done(s1, Raise("AttributeError"))
       ELSE LET s2 == [s1 EXCEPT !.metadata = MergedMetadata(@, settings.v)]
                loaded == JsonLoads(cv.value)
            IN IF loaded.k = "raise" THEN Done(s2, loaded)
               ELSE LET s3 == [s2 EXCEPT !.metadata = ExtractedMetadata(@, loaded.v)]
                        native == Convert(s3, cv.text, Popped(loaded.v), off)
                    IN IF native.k = "raise" THEN Done(s3, native)
                       ELSE Done([s3 EXCEPT !.original_value = native.v], native)

\* MondayType.to_native
MondayType_to_native(self, value, off) ==
    IF ~Truthy(value) THEN Done(self, Ret(value))
    ELSE IF value.t # "ColumnValue" THEN RawDecode(self, value)
    ELSE PayloadDecode(self, value, off)

---------------------------------------------------------------------------
(* The classes that override to_native *)

\* self._is_column_value(value): neither MondayType nor any subclass defines
\* the method, so the attribute lookup raises
is_column_value(self, value) == Raise("AttributeError")

\* json.dumps of a text or None
JsonDumps(x) == IF x.t = "str" THEN Str("'" \o x.v \o "'") ELSE Str("null")

\* NumberType._isint: the ValueError of float() or int() means False
NumberType_isint(value) ==
    LET a == ToFloat(value)
    IN IF a.k = "raise"
       THEN (IF a.v = Str("ValueError") THEN Ret(Bool(FALSE)) ELSE a)
       ELSE Ret(Bool(a.v.v % 10 = 0))

\* NumberType._isfloat
NumberType_isfloat(value) ==
    LET a == ToFloat(value)
    IN IF a.k = "raise"
       THEN (IF a.v = Str("ValueError") THEN Ret(Bool(FALSE)) ELSE a)
       ELSE Ret(Bool(TRUE))

\* NumberType.to_native after value = super().to_native(value, context), whose
\* result is r
NumberType_after_super(self, r) ==
    LET isint == NumberType_isint(r.out.v)
        isfloat == NumberType_isfloat(r.out.v)
    IN IF r.out.k = "raise" THEN r
       ELSE IF PyEq(r.out.v, null_value(self.kind)) THEN Done(r.self, Ret(None))
       ELSE IF isint.k = "raise" THEN Done(r.self, isint)
       ELSE IF isint.v.v THEN Done([r.self EXCEPT !.native_type = "int"], ToInt(r.out.v))
       ELSE IF isfloat.k = "raise" THEN Done(r.self, isfloat)
       ELSE IF isfloat.v.v THEN Done([r.self EXCEPT !.native_type = "float"], ToFloat(r.out.v))
       ELSE Done(r.self, Ret(None))

\* NumberType.to_native
NumberType_to_native(self, value, off) ==
    LET icv == is_column_value(self, value)
    IN IF icv.k = "raise" THEN Done(self, icv)
       ELSE IF ~Truthy(icv.v) THEN Done(self, Ret(value))
       ELSE NumberType_after_super(self, MondayType_to_native(self, value, off))

\* TextType.to_native
TextType_to_native(self, value, off) ==
    LET icv == is_column_value(self, value)
    IN IF icv.k = "raise" THEN Done(self, icv)
       ELSE IF ~Truthy(icv.v) THEN Done(self, Ret(value))
       ELSE MondayType_to_native(self, value, off)

\* StatusType.to_native after super().to_native(value, context), whose result is r
StatusType_after_super(value, r) ==
    IF r.out.k = "raise" THEN r
    ELSE IF ~Truthy(r.self.data_mapping) THEN Done(r.self, Ret(value.v.text))
    ELSE IF value.v.text.t = "str" /\ HasKey(r.self.data_mapping, value.v.text.v)
         THEN Done(r.self, Ret(Get(r.self.data_mapping, value.v.text.v)))
         ELSE Done(r.self, Ret(None))

\* StatusType.to_native
StatusType_to_native(self, value, off) ==
    LET icv == is_column_value(self, value)
    IN IF icv.k = "raise" THEN Done(self, icv)
       ELSE IF ~Truthy(icv.v) THEN Done(self, Ret(value))
       ELSE StatusType_after_super(value, MondayType_to_native(self, value, off))

\* PeopleType.to_native after value = super().to_native(value, context), whose
\* result is r
PeopleType_after_super(self, r) ==
    LET setting == Subscript(Dict(r.self.metadata), "max_people_allowed")
        parsed == IF setting.k = "raise" THEN setting ELSE ToInt(setting.v)
        max_people_allowed == IF parsed.k = "raise" THEN PyInt(0) ELSE parsed.v
        s1 == [r.self EXCEPT !.metadata = DictSet(@, "max_people_allowed", max_people_allowed)]
        people == Subscript(r.out.v, "personsAndTeams")
        wellformed == /\ IsList(people.v)
                      /\ \A i \in DOMAIN people.v.v :
                            /\ Subscript(people.v.v[i], "kind").k = "return"
                            /\ Get(people.v.v[i], "kind") \in {Str("person"), Str("team")}
                            /\ Subscript(people.v.v[i], "id").k = "return"
        result == [i \in DOMAIN people.v.v |->
                      PersonOrTeam(Get(people.v.v[i], "id"), Get(people.v.v[i], "kind").v)]
    IN IF r.out.k = "raise" THEN r
       ELSE IF PyEq(r.out.v, null_value(self.kind)) THEN Done(s1, Ret(EmptyList))
       ELSE IF people.k = "raise" THEN Done(s1, people)
       ELSE IF ~wellformed THEN Done(s1, Raise("KeyError"))
       ELSE IF max_people_allowed.v = 1
            THEN (IF Len(result) > 0 THEN Done(s1, Ret(result[1]))
                  ELSE Done(s1, Raise("IndexError")))
            ELSE Done(s1, Ret(List(result)))

\* PeopleType.to_native
PeopleType_to_native(self, value, off) ==
    LET icv == is_column_value(self, value)
    IN IF icv.k = "raise" THEN Done(self, icv)
       ELSE IF ~Truthy(icv.v) THEN Done(self, Ret(value))
       ELSE PeopleType_after_super(self, MondayType_to_native(self, value, off))

\* SubitemsType.to_native after value = super().to_native(value, context), whose
\* result is r; client.get_items answers one item per linked id
SubitemsType_after_super(self, r) ==
    LET linked == Subscript(r.out.v, "linkedPulseIds")
        wellformed == /\ IsList(linked.v)
                      /\ \A i \in DOMAIN linked.v.v :
                            Subscript(linked.v.v[i], "linkedPulseId").k = "return"
        item_ids == [i \in DOMAIN linked.v.v |-> Get(linked.v.v[i], "linkedPulseId")]
    IN IF r.out.k = "raise" THEN r
       ELSE IF PyEq(r.out.v, null_value(self.kind)) THEN Done(r.self, Ret(EmptyList))
       ELSE IF linked.k = "raise" THEN Done(r.self, linked)
       ELSE IF ~wellformed THEN Done(r.self, Raise("KeyError"))
       ELSE Done([r.self EXCEPT !.original_value = Dict([item_ids |-> List(item_ids)])],
                 Ret(List([i \in DOMAIN item_ids |-> [t |-> "Model", v |-> item_ids[i]]])))

\* SubitemsType.to_native
SubitemsType_to_native(self, value, off) ==
    LET icv == is_column_value(self, value)
    IN IF icv.k = "raise" THEN Done(self, icv)
       ELSE IF ~Truthy(icv.v) THEN Done(self, Ret(value))
       ELSE SubitemsType_after_super(self, MondayType_to_native(self, value, off))

\* MirrorType._get_monday_type: a new converter of the wrapped class
MirrorType_get_monday_type(self) ==
    LET id == Subscript(Dict(self.metadata), "id")
        title == Subscript(Dict(self.metadata), "title")
    IN IF self.wrapped \in {"MirrorType", "SubitemsType"} THEN Done(Unset, Raise("TypeError"))
       ELSE New(self.wrapped,
                IF id.k = "raise" THEN None ELSE id.v,
                IF title.k = "raise" THEN None ELSE title.v,
                None, Bool(TRUE), "none")

\* MirrorType.to_native after super().to_native(value, context), whose result is r
MirrorType_after_super(self, value, r, off) ==
    LET target == MirrorType_get_monday_type(r.self)
        reencoded == [value EXCEPT !.v.value = JsonDumps(value.v.text)]
    IN IF r.out.k = "raise" THEN r
       ELSE IF self.wrapped = "NumberType"
            THEN (IF target.out.k = "raise" THEN Done(r.self, target.out)
                  ELSE Done(r.self, NumberType_to_native(target.self, reencoded, off).out))
       ELSE IF PyEq(value.v.value, null_value(self.kind)) THEN Done(r.self, Ret(default(self.kind)))
       ELSE Done(r.self, Ret(None))

\* MirrorType.to_native
MirrorType_to_native(self, value, off) ==
    LET icv == is_column_value(self, value)
    IN IF icv.k = "raise" THEN Done(self, icv)
       ELSE IF ~Truthy(icv.v) THEN Done(self, Ret(value))
       ELSE MirrorType_after_super(self, value, MondayType_to_native(self, value, off), off)

\* TimelineType.to_native after value = super().to_native(value, context), whose
\* result is r
TimelineType_after_super(r) ==
    LET from == Subscript(r.out.v, "from")
        to == Subscript(r.out.v, "to")
        from_date == IF from.k = "raise" THEN from ELSE ParseDate(from.v)
        to_date == IF to.k = "raise" THEN to ELSE ParseDate(to.v)
    IN IF r.out.k = "raise" THEN r
       ELSE IF from_date.k = "raise" \/ to_date.k = "raise"
            THEN Done(r.self, Raise("MondayTypeError"))
            ELSE Done(r.self, Ret(Timeline(from_date.v, to_date.v)))

\* TimelineType.to_native
TimelineType_to_native(self, value, off) ==
    IF value.t = "Timeline" THEN Done(self, Ret(value))
    ELSE TimelineType_after_super(MondayType_to_native(self, value, off))

\* WeekType.to_native after value = super().to_native(value, context), whose
\* result is r
WeekType_after_super(r) ==
    LET week_value == Subscript(r.out.v, "week")
        startDate == IF week_value.k = "raise" THEN week_value
                     ELSE Subscript(week_value.v, "startDate")
        parsed == IF startDate.k = "raise" THEN startDate ELSE ParseDate(startDate.v)
        week == IF parsed.k = "raise" THEN parsed ELSE Week(parsed.v, parsed.v)
    IN IF r.out.k = "raise" THEN r
       ELSE IF week_value.k = "return" /\ PyEq(week_value.v, Str(""))
            THEN Done(r.self, Week(None, None))
       ELSE IF week.k = "raise" THEN Done(r.self, Ret(None))
       ELSE Done(r.self, week)

\* WeekType.to_native
WeekType_to_native(self, value, off) ==
    LET start == Subscript(value, "start")
        end == Subscript(value, "end")
    IN IF value.t = "Week" THEN Done(self, Ret(value))
       ELSE IF IsDict(value)
            THEN (IF start.k = "raise" THEN Done(self, start)
                  ELSE IF end.k = "raise" THEN Done(self, end)
                  ELSE Done(self, Week(start.v, end.v)))
       ELSE WeekType_after_super(MondayType_to_native(self, value, off))

\* to_native by class
ToNative(self, value, off) ==
    CASE self.kind = "MirrorType" -> MirrorType_to_native(self, value, off)
      [] self.kind = "NumberType" -> NumberType_to_native(self, value, off)
      [] self.kind = "PeopleType" -> PeopleType_to_native(self, value, off)
      [] self.kind = "StatusType" -> StatusType_to_native(self, value, off)
      [] self.kind = "SubitemsType" -> SubitemsType_to_native(self, value, off)
      [] self.kind = "TextType" -> TextType_to_native(self, value, off)
      [] self.kind = "TimelineType" -> TimelineType_to_native(self, value, off)
      [] self.kind = "WeekType" -> WeekType_to_native(self, value, off)
      [] OTHER -> MondayType_to_native(self, value, off)

---------------------------------------------------------------------------
(* Encoding: the _export hooks and to_primitive *)

\* MondayType._export
MondayType_export(self, value) == Ret(value)

\* CheckboxType._export
CheckboxType_export(self, value) ==
    IF ~Truthy(value) THEN Ret(null_value(self.kind))
    ELSE Ret(Dict([checked |-> Str("true")]))

\* DateType._export; off is the local UTC offset the process runs under
DateType_export(self, value, off) ==
    LET local_time == FormatTime(value)
        utc == ToUtc(value, off)
        has_time == local_time.v # Str("00:00:00")
    IN IF local_time.k = "raise" THEN local_time
       ELSE Ret(Dict([date |-> FormatDate(utc).v,
                      time |-> IF has_time THEN FormatTime(utc).v ELSE None]))

\* value = [reverse[label] for label in value] with reverse the inverted mapping
ReverseMapped(mapping, value) ==
    IF ~IsList(value) THEN Raise(IF IsStr(value) \/ IsDict(value) THEN "KeyError" ELSE "TypeError")
    ELSE IF \A i \in DOMAIN value.v : \E key \in DOMAIN mapping.v : mapping.v[key] = value.v[i]
         THEN Ret(List([i \in DOMAIN value.v |->
                 Str(CHOOSE key \in DOMAIN mapping.v : mapping.v[key] = value.v[i])]))
         ELSE Raise("KeyError")

\* label['name'] in value, for a list or a text
Contains(value, name) ==
    IF IsList(value) THEN \E i \in DOMAIN value.v : PyEq(value.v[i], name) ELSE FALSE

\* the ids of the labels that DropdownType._export selects, in label order
RECURSIVE SelectedIds(_, _)
SelectedIds(labels, value) ==
    IF labels = <<>> THEN <<>>
    ELSE LET label == Head(labels)
             rest == SelectedIds(Tail(labels), value)
         IN IF PyEq(value, Get(label, "name")) \/ Contains(value, Get(label, "name"))
            THEN <<Get(label, "id")>> \o rest
            ELSE rest

\* DropdownType._export
DropdownType_export(self, value) ==
    LET names == IF Truthy(self.data_mapping) THEN ReverseMapped(self.data_mapping, value)
                 ELSE Ret(value)
        labels == Subscript(Dict(self.metadata), "labels")
        wellformed == /\ IsList(labels.v)
                      /\ \A i \in DOMAIN labels.v.v :
                            /\ Subscript(labels.v.v[i], "name").k = "return"
                            /\ Subscript(labels.v.v[i], "id").k = "return"
    IN IF self.data_mapping = Unset THEN Raise("AttributeError")
       ELSE IF names.k = "raise" THEN names
       ELSE IF labels.k = "raise" THEN labels
       ELSE IF ~wellformed THEN Raise("TypeError")
       ELSE IF ~(IsList(names.v) \/ IsStr(names.v)) THEN Raise("TypeError")
       ELSE Ret(Dict([ids |-> List(SelectedIds(labels.v.v, names.v))]))

\* EmailType._export: the result reads self.email and self.text, which the
\* converter does not have
EmailType_export(self, value) ==
    IF value.t # "Email" THEN Raise("AttributeError")
    ELSE IF ~Truthy(value.v.email) THEN Ret(null_value(self.kind))
    ELSE Raise("AttributeError")

\* ItemLinkType._export
ItemLinkType_export(self, value) ==
    LET items == IF PyEq(value, None) THEN EmptyList ELSE value
        one == ToInt(items)
    IN IF ~IsList(items)
       THEN (IF one.k = "raise" THEN one ELSE Ret(Dict([item_ids |-> List(<<one.v>>)])))
       ELSE IF \E i \in DOMAIN items.v : ToInt(items.v[i]).k = "raise"
            THEN ToInt(items.v[CHOOSE i \in DOMAIN items.v :
                                  /\ ToInt(items.v[i]).k = "raise"
                                  /\ \A j \in 1..(i - 1) : ToInt(items.v[j]).k = "return"])
            ELSE Ret(Dict([item_ids |-> List([i \in DOMAIN items.v |-> ToInt(items.v[i]).v])]))

\* LongTextType._export
LongTextType_export(self, value) ==
    IF ~Truthy(value) THEN Ret(null_value(self.kind)) ELSE Ret(Dict([text |-> value]))

\* self._export(value) by class
Export(self, value, off) ==
    CASE self.kind = "CheckboxType" -> CheckboxType_export(self, value)
      [] self.kind = "DateType" -> DateType_export(self, value, off)
      [] self.kind = "DropdownType" -> DropdownType_export(self, value)
      [] self.kind = "EmailType" -> EmailType_export(self, value)
      [] self.kind = "ItemLinkType" -> ItemLinkType_export(self, value)
      [] self.kind = "LongTextType" -> LongTextType_export(self, value)
      [] OTHER -> MondayType_export(self, value)

\* MondayType.to_primitive
MondayType_to_primitive(self, value, off) ==
    IF ~Truthy(null_value(self.kind)) THEN Ret(None)
    ELSE IF ~Truthy(value) THEN Ret(null_value(self.kind))
    ELSE Export(self, value, off)

\* NumberType.to_primitive
NumberType_to_primitive(self, value) ==
    IF ~Truthy(value) THEN Ret(null_value(self.kind)) ELSE Ret(ToStr(value))

\* PeopleType.to_primitive
PeopleType_to_primitive(self, value) ==
    LET people == IF IsList(value) THEN value ELSE List(<<value>>)
    IN IF ~Truthy(value) THEN Ret(null_value(self.kind))
       ELSE IF \E i \in DOMAIN people.v : people.v[i].t # "PersonOrTeam"
            THEN Raise("AttributeError")
            ELSE Ret(Dict([personsAndTeams |->
                    List([i \in DOMAIN people.v |->
                            Dict([id |-> people.v[i].v.id, kind |-> Str(people.v[i].v.kind)])])]))

\* StatusType.to_primitive
StatusType_to_primitive(self, value) ==
    LET label == IF ~Truthy(self.data_mapping) THEN Ret(value)
                 ELSE IF \E key \in DOMAIN self.data_mapping.v :
                            self.data_mapping.v[key] = value
                      THEN Ret(Str(CHOOSE key \in DOMAIN self.data_mapping.v :
                                      self.data_mapping.v[key] = value))
                      ELSE Raise("KeyError")
        labels == Subscript(Dict(self.metadata), "labels")
        index == ToInt(Str(CHOOSE key \in DOMAIN labels.v.v : PyEq(label.v, labels.v.v[key])))
    IN IF label.k = "raise" THEN label
       ELSE IF labels.k = "raise" THEN labels
       ELSE IF ~IsDict(labels.v) THEN Raise("AttributeError")
       ELSE IF \E key \in DOMAIN labels.v.v : PyEq(label.v, labels.v.v[key])
            THEN (IF index.k = "raise" THEN index ELSE Ret(Dict([index |-> index.v])))
            ELSE Ret(self.original_value)

\* TextType.to_primitive
TextType_to_primitive(self, value) ==
    IF ~Truthy(value) THEN Ret(Str("")) ELSE Ret(value)

\* TimelineType.to_primitive
TimelineType_to_primitive(self, value) ==
    LET from == FormatDate(value.v.from_date)
        to == FormatDate(value.v.to_date)
    IN IF ~Truthy(value) THEN Ret(null_value(self.kind))
       ELSE IF value.t # "Timeline" THEN Raise("AttributeError")
       ELSE IF from.k = "raise" THEN from
       ELSE IF to.k = "raise" THEN to
       ELSE Ret(Dict([from |-> from.v, to |-> to.v]))

\* WeekType.to_primitive
WeekType_to_primitive(self, value) ==
    LET start == FormatDate(value.v.start)
        end == FormatDate(value.v.end)
    IN IF ~Truthy(value) THEN Ret(null_value(self.kind))
       ELSE IF value.t # "Week" THEN Raise("AttributeError")
       ELSE IF start.k = "raise" THEN start
       ELSE IF end.k = "raise" THEN end
       ELSE Ret(Dict([week |-> Dict([startDate |-> start.v, endDate |-> end.v])]))

\* to_primitive of the classes other than MirrorType
DirectToPrimitive(self, value, off) ==
    CASE self.kind = "NumberType" -> NumberType_to_primitive(self, value)
      [] self.kind = "PeopleType" -> PeopleType_to_primitive(self, value)
      [] self.kind = "StatusType" -> StatusType_to_primitive(self, value)
      [] self.kind = "TextType" -> TextType_to_primitive(self, value)
      [] self.kind = "TimelineType" -> TimelineType_to_primitive(self, value)
      [] self.kind = "WeekType" -> WeekType_to_primitive(self, value)
      [] OTHER -> MondayType_to_primitive(self, value, off)

\* MirrorType.to_primitive: the wrapped converter's result is not returned
MirrorType_to_primitive(self, value, off) ==
    LET target == MirrorType_get_monday_type(self)
        inner == DirectToPrimitive(target.self, value, off)
    IN IF target.out.k = "raise" THEN target.out
       ELSE IF inner.k = "raise" THEN inner
       ELSE Ret(None)

\* to_primitive by class
ToPrimitive(self, value, off) ==
    IF self.kind = "MirrorType" THEN MirrorType_to_primitive(self, value, off)
    ELSE DirectToPrimitive(self, value, off)

---------------------------------------------------------------------------
(* Change detection: value_changed *)

\* the order in which the dicts of the model list their keys
KeyOrder == <<"from", "to", "week", "startDate", "endDate", "date", "time",
              "checked", "text", "email", "index", "item_ids", "personsAndTeams">>

\* MondayType._null_value_change: True, False, or None when it falls off the end
null_value_change(self, value) ==
    IF InPair(self.original_value, None, null_value(self.kind))
    THEN Bool(~PyEq(value, null_value(self.kind)))
    ELSE IF PyEq(value, null_value(self.kind))
         THEN Bool(~PyEq(self.original_value, null_value(self.kind)))
         ELSE None

\* MondayType.value_changed
MondayType_value_changed(self, value) ==
    IF Truthy(null_value_change(self, value)) THEN Ret(Bool(TRUE))
    ELSE Ret(Bool(~PyEq(value, self.original_value)))

\* CheckboxType.value_changed
CheckboxType_value_changed(self, value) ==
    LET o == Subscript(self.original_value, "checked")
        n == Subscript(value, "checked")
        orig == IF o.k = "raise" THEN FALSE ELSE Truthy(o.v)
        new == IF n.k = "raise" THEN FALSE ELSE Truthy(n.v)
    IN IF Truthy(null_value_change(self, value)) THEN Ret(Bool(TRUE))
       ELSE Ret(Bool(orig # new))

\* for k in value.keys(): if value[k] != original[k]: return True -- return False;
\* a failing original[k] raises, or counts as a difference when it is a KeyError
\* and key_error_differs
RECURSIVE KeysDiffer(_, _, _, _)
KeysDiffer(keys, value, original, key_error_differs) ==
    IF keys = <<>> THEN Ret(Bool(FALSE))
    ELSE IF Head(keys) \notin DOMAIN value.v
         THEN KeysDiffer(Tail(keys), value, original, key_error_differs)
    ELSE LET o == Subscript(original, Head(keys))
         IN IF o.k = "raise"
            THEN (IF key_error_differs /\ o.v = Str("KeyError") THEN Ret(Bool(TRUE)) ELSE o)
            ELSE IF ~PyEq(Get(value, Head(keys)), o.v) THEN Ret(Bool(TRUE))
            ELSE KeysDiffer(Tail(keys), value, original, key_error_differs)

\* DateType.value_changed
DateType_value_changed(self, value) ==
    IF Truthy(null_value_change(self, value)) THEN Ret(Bool(TRUE))
    ELSE IF ~IsDict(value) THEN Raise("AttributeError")
    ELSE KeysDiffer(KeyOrder, value, self.original_value, TRUE)

\* DropdownType.value_changed; of the texts only null_value is a candidate
DropdownType_value_changed(self, value) ==
    IF Truthy(null_value_change(self, value)) THEN Ret(Bool(TRUE))
    ELSE IF ~IsList(value) \/ ~IsList(self.original_value) THEN Raise("TypeError")
    ELSE IF Len(value.v) # Len(self.original_value.v) THEN Ret(Bool(TRUE))
    ELSE Ret(Bool(\E i \in DOMAIN value.v : ~Contains(self.original_value, value.v[i])))

\* EmailType.value_changed: the body is pass
EmailType_value_changed(self, value) == Ret(None)

\* self.self: the converter has no attribute self
attribute_self(self) == Raise("AttributeError")

\* ItemLinkType.value_changed
ItemLinkType_value_changed(self, value) ==
    LET candidate == IF PyEq(value, None) THEN null_value(self.kind) ELSE value
        inner == attribute_self(self)
        multi == multiple_values(inner.v)
        item_ids == Subscript(candidate, "item_ids")
    IN IF Truthy(null_value_change(self, candidate)) THEN Ret(Bool(TRUE))
       ELSE IF inner.k = "raise" THEN inner
       ELSE IF multi.k = "raise" THEN multi
       ELSE IF item_ids.k = "raise" THEN item_ids
       ELSE IF ~Truthy(multi.v) THEN Ret(Bool(~PyEq(item_ids.v, self.original_value)))
       ELSE IF ~IsList(item_ids.v) \/ ~IsList(self.original_value) THEN Raise("TypeError")
       ELSE IF Len(item_ids.v.v) # Len(self.original_value.v) THEN Ret(Bool(FALSE))
       ELSE IF \E i \in DOMAIN item_ids.v.v : ~Contains(self.original_value, item_ids.v.v[i])
            THEN Ret(Bool(FALSE))
            ELSE Ret(Bool(TRUE))

\* LongTextType.value_changed
LongTextType_value_changed(self, value) ==
    LET o == Subscript(self.original_value, "text")
        n == Subscript(value, "text")
    IN IF Truthy(null_value_change(self, value)) THEN Ret(Bool(TRUE))
       ELSE IF o.k = "raise" THEN o
       ELSE IF n.k = "raise" THEN n
       ELSE Ret(Bool(~PyEq(o.v, n.v)))

\* NumberType.value_changed: _null_value_change is called with one argument too many
NumberType_value_changed(self, value) == Raise("TypeError")

\* PeopleType.value_changed
PeopleType_value_changed(self, value) ==
    LET old == Subscript(self.original_value, "personsAndTeams")
        new == Subscript(value, "personsAndTeams")
    IN IF Truthy(null_value_change(self, value)) THEN Ret(Bool(TRUE))
       ELSE IF old.k = "raise" THEN old
       ELSE IF new.k = "raise" THEN new
       ELSE IF ~IsList(old.v) \/ ~IsList(new.v) THEN Raise("TypeError")
       ELSE IF Len(old.v.v) # Len(new.v.v) THEN Ret(Bool(TRUE))
       ELSE IF \E i \in DOMAIN old.v.v :
                  \/ Subscript(old.v.v[i], "id").k = "raise"
                  \/ Subscript(new.v.v[i], "id").k = "raise"
            THEN Raise("KeyError")
       ELSE Ret(Bool(\E i \in DOMAIN old.v.v :
                        ~PyEq(Get(old.v.v[i], "id"), Get(new.v.v[i], "id"))))

\* StatusType.value_changed
StatusType_value_changed(self, value) ==
    LET o == Subscript(self.original_value, "index")
        n == Subscript(value, "index")
    IN IF Truthy(null_value_change(self, value)) THEN Ret(Bool(TRUE))
       ELSE IF o.k = "raise" THEN o
       ELSE IF n.k = "raise" THEN n
       ELSE Ret(Bool(~PyEq(o.v, n.v)))

\* TimelineType.value_changed
TimelineType_value_changed(self, value) ==
    IF ~IsDict(value) THEN Raise("AttributeError")
    ELSE KeysDiffer(KeyOrder, value, self.original_value, FALSE)

\* WeekType.value_changed
WeekType_value_changed(self, value) ==
    LET orig_week == Subscript(self.original_value, "week")
        new_week == Subscript(value, "week")
    IN IF Truthy(null_value_change(self, value)) THEN Ret(Bool(TRUE))
       ELSE IF orig_week.k = "raise" THEN orig_week
       ELSE IF new_week.k = "raise" THEN new_week
       ELSE IF PyEq(orig_week.v, Str("")) /\ ~PyEq(new_week.v, orig_week.v) THEN Ret(Bool(TRUE))
       ELSE IF ~IsDict(new_week.v) THEN Raise("AttributeError")
       ELSE KeysDiffer(KeyOrder, new_week.v, orig_week.v, FALSE)

\* value_changed by class
ValueChanged(self, value) ==
    CASE self.kind = "CheckboxType" -> CheckboxType_value_changed(self, value)
      [] self.kind = "DateType" -> DateType_value_changed(self, value)
      [] self.kind = "DropdownType" -> DropdownType_value_changed(self, value)
      [] self.kind = "EmailType" -> EmailType_value_changed(self, value)
      [] self.kind = "ItemLinkType" -> ItemLinkType_value_changed(self, value)
      [] self.kind = "LongTextType" -> LongTextType_value_changed(self, value)
      [] self.kind \in {"MirrorType", "SubitemsType"} -> Ret(Bool(FALSE))
      [] self.kind = "NumberType" -> NumberType_value_changed(self, value)
      [] self.kind = "PeopleType" -> PeopleType_value_changed(self, value)
      [] self.kind = "StatusType" -> StatusType_value_changed(self, value)
      [] self.kind = "TimelineType" -> TimelineType_value_changed(self, value)
      [] self.kind = "WeekType" -> WeekType_value_changed(self, value)
      [] OTHER -> MondayType_value_changed(self, value)

---------------------------------------------------------------------------
(* Validation: the validate_* hooks *)

Valid == Ret(None)
Invalid == Raise("ValidationError")

\* re.fullmatch of the email pattern, for the addresses the model validates
EmailMatches(x) ==
    IF x.t # "str" THEN Raise("TypeError") ELSE Ret(Bool(x.v \in {"a@b.co", "x.y@mail.example"}))

\* CheckboxType.validate_checkbox
validate_checkbox(self, value) ==
    LET cast == IF value.t \in allow_casts(self.kind) THEN Cast(self, value) ELSE Ret(value)
    IN IF cast.k = "raise" THEN cast
       ELSE IF cast.v.t # "bool" THEN Invalid ELSE Valid

\* DateType.validate_date
validate_date(self, value) == IF value.t # self.native_type THEN Invalid ELSE Valid

\* DropdownType.validate_dropdown
validate_dropdown(self, value) ==
    LET names == IF Truthy(self.data_mapping) THEN ReverseMapped(self.data_mapping, value)
                 ELSE Ret(value)
        labels == Subscript(Dict(self.metadata), "labels")
        wellformed == /\ IsList(labels.v)
                      /\ \A i \in DOMAIN labels.v.v : Subscript(labels.v.v[i], "name").k = "return"
    IN IF self.data_mapping = Unset THEN Raise("AttributeError")
       ELSE IF names.k = "raise" THEN names
       ELSE IF labels.k = "raise" THEN labels
       ELSE IF ~wellformed \/ ~IsList(names.v) THEN Raise("TypeError")
       ELSE IF \E i \in DOMAIN names.v.v :
                  \A j \in DOMAIN labels.v.v : ~PyEq(names.v.v[i], Get(labels.v.v[j], "name"))
            THEN Invalid
            ELSE Valid

\* EmailType.validate_email
validate_email(self, value) ==
    LET matches == EmailMatches(value.v.email)
    IN IF value.t # "Email" THEN Invalid
       ELSE IF Truthy(value.v.email) THEN Valid
       ELSE IF matches.k = "raise" THEN matches
       ELSE IF ~matches.v.v THEN Invalid ELSE Valid

\* ItemLinkType.validate_itemlink: self._allow_multiple_values is defined nowhere
validate_itemlink(self, value) == Raise("AttributeError")

\* LongTextType.validate_text and TextType.validate_text
validate_text(self, value) == IF value.t # "str" THEN Invalid ELSE Valid

\* NumberType.validate_number
validate_number(self, value) == IF value.t \notin {"int", "float"} THEN Invalid ELSE Valid

\* PeopleType.validate_people
validate_people(self, value) ==
    LET max == Subscript(Dict(self.metadata), "max_people_allowed")
        people == IF PyEq(max.v, PyInt(1)) /\ ~IsList(value) THEN List(<<value>>) ELSE value
    IN IF max.k = "raise" THEN max
       ELSE IF ~IsList(people) THEN Invalid
       ELSE IF ~IsNumeric(max.v) THEN Raise("TypeError")
       ELSE IF Tenths(max.v) > 0 /\ 10 * Len(people.v) > Tenths(max.v) THEN Invalid
       ELSE IF \E i \in DOMAIN people.v : people.v[i].t # "PersonOrTeam" THEN Invalid
       ELSE Valid

\* StatusType.validate_status
validate_status(self, value) ==
    LET label == IF ~Truthy(self.data_mapping) THEN Ret(value)
                 ELSE IF \E key \in DOMAIN self.data_mapping.v :
                            self.data_mapping.v[key] = value
                      THEN Ret(Str(CHOOSE key \in DOMAIN self.data_mapping.v :
                                      self.data_mapping.v[key] = value))
                      ELSE Raise("KeyError")
        labels == Subscript(Dict(self.metadata), "labels")
    IN IF label.k = "raise" THEN label
       ELSE IF labels.k = "raise" THEN labels
       ELSE IF ~IsDict(labels.v) THEN Raise("AttributeError")
       ELSE IF \A key \in DOMAIN labels.v.v : ~PyEq(label.v, labels.v.v[key]) THEN Invalid
       ELSE Valid

\* SubitemsType.validate_subitems
validate_subitems(self, value) ==
    IF ~IsList(value) THEN Invalid
    ELSE IF \E i \in DOMAIN value.v : value.v[i].t # "Model" THEN Invalid
    ELSE Valid

\* TimelineType.validate_timeline
validate_timeline(self, value) == IF value.t # self.native_type THEN Invalid ELSE Valid

\* WeekType.validate_week
validate_week(self, value) ==
    IF value.t # self.native_type THEN Invalid
    ELSE IF ~Truthy(value.v.start) THEN Invalid
    ELSE IF ~Truthy(value.v.end) THEN Invalid
    ELSE Valid

\* the classes that define a validate_* hook
ValidatedKinds == Kinds \ {"MondayType", "MondaySimpleType", "MondayComplexType", "MirrorType"}

\* the validate_* hook of the class
Validate(self, value) ==
    CASE self.kind = "CheckboxType" -> validate_checkbox(self, value)
      [] self.kind = "DateType" -> validate_date(self, value)
      [] self.kind = "DropdownType" -> validate_dropdown(self, value)
      [] self.kind = "EmailType" -> validate_email(self, value)
      [] self.kind = "ItemLinkType" -> validate_itemlink(self, value)
      [] self.kind \in {"LongTextType", "TextType"} -> validate_text(self, value)
      [] self.kind = "NumberType" -> validate_number(self, value)
      [] self.kind = "PeopleType" -> validate_people(self, value)
      [] self.kind = "StatusType" -> validate_status(self, value)
      [] self.kind = "SubitemsType" -> validate_subitems(self, value)
      [] self.kind = "TimelineType" -> validate_timeline(self, value)
      [] self.kind = "WeekType" -> validate_week(self, value)

---------------------------------------------------------------------------
(* The inputs the model draws from *)

\* a data_mapping from labels to application values
Mapping == Dict([Done |-> Enum("DONE"), Todo |-> Enum("TODO")])

\* the local UTC offsets the process may run under
LocalOffsets == {0 - 5, 0, 2}
Offsets(k) == IF k = "DateType" THEN LocalOffsets ELSE {0}

\* constructor arguments
InitIds == {None, Str(""), Str("c1")}
InitTitles == {None, Str("T")}
InitMappings(k) == IF k \in {"DropdownType", "StatusType"} THEN {None, Mapping} ELSE {None}
InitMultiple(k) == IF k = "ItemLinkType" THEN {Bool(TRUE), Bool(FALSE)} ELSE {Bool(TRUE)}
InitTypes(k) ==
    CASE k = "MirrorType" -> {"CheckboxType", "NumberType", "EmailType"}
      [] k = "SubitemsType" -> {"MondayModel", "str"}
      [] OTHER -> {"none"}

\* <<text, value>> of the column payloads decoded by a converter of class k
Wire(k) ==
    CASE k = "CheckboxType" ->
            {<<Str("v"), Str("{'checked':'true'}")>>, <<Str(""), Str("{}")>>,
             <<Str(""), Str("{'checked':'false'}")>>,
             <<Str("v"), Str("{'checked':'true','changed_at':'2024-01-15T10:00:00.000Z'}")>>,
             <<Str(""), None>>}
      [] k = "DateType" ->
            {<<Str("2024-01-15"), Str("{'date':'2024-01-15','time':null}")>>,
             <<Str("2024-01-15 03:00"), Str("{'date':'2024-01-15','time':'03:00:00'}")>>,
             <<Str("2024-01-15 22:00"), Str("{'date':'2024-01-15','time':'22:00:00'}")>>,
             <<Str("soon"), Str("{'date':'soon','time':null}")>>,
             <<Str(""), Str("{}")>>}
      [] k = "DropdownType" ->
            {<<Str("Done"), Str("{'ids':[1]}")>>, <<Str("Done, Todo"), Str("{'ids':[1,2]}")>>,
             <<Str("Unknown"), Str("{'ids':[1]}")>>, <<None, Str("{}")>>}
      [] k = "EmailType" ->
            {<<Str("Al"), Str("{'email':'a@b.co','text':'Al'}")>>,
             <<Str(""), Str("{'email':'a@b.co','text':''}")>>,
             <<Str(""), Str("{'email':'a@b.co'}")>>, <<Str(""), Str("{}")>>}
      [] k \in {"ItemLinkType", "SubitemsType"} ->
            {<<Str("a, b"), Str("{'linkedPulseIds':[{'linkedPulseId':11},{'linkedPulseId':12}]}")>>,
             <<Str("b"), Str("{'linkedPulseIds':[{'linkedPulseId':12}]}")>>,
             <<Str(""), Str("{}")>>}
      [] k = "LongTextType" ->
            {<<Str("hello"), Str("{'text':'hello'}")>>, <<Str(""), Str("{}")>>,
             <<Str("hello"), Str("'hello'")>>}
      [] k \in {"NumberType", "MirrorType"} ->
            {<<Str("3"), Str("'3'")>>, <<Str("3.5"), Str("'3.5'")>>, <<Str("3.0"), Str("'3.0'")>>,
             <<Str("abc"), Str("'abc'")>>, <<Str(""), Str("''")>>}
      [] k = "PeopleType" ->
            {<<Str("Al"), Str("{'personsAndTeams':[{'id':1,'kind':'person'}]}")>>,
             <<Str(""), Str("{}")>>}
      [] k = "StatusType" -> {<<Str("Done"), Str("{'index':0}")>>, <<Str(""), Str("{}")>>}
      [] k = "TimelineType" ->
            {<<Str("2024-01-15 - 2024-01-17"), Str("{'from':'2024-01-15','to':'2024-01-17'}")>>,
             <<Str("2024-01-17 - 2024-01-15"), Str("{'from':'2024-01-17','to':'2024-01-15'}")>>,
             <<Str("2024-01-15"), Str("{'from':'2024-01-15'}")>>, <<Str(""), Str("{}")>>}
      [] k = "WeekType" ->
            {<<Str("w3"), Str("{'week':{'startDate':'2024-01-15','endDate':'2024-01-21'}}")>>,
             <<Str("w3"), Str("{'week':{'startDate':'2024-01-17','endDate':'2024-01-23'}}")>>,
             <<Str(""), Str("{'week':''}")>>, <<Str(""), Str("{}")>>}
      [] OTHER ->
            {<<Str("hello"), Str("'hello'")>>, <<Str(""), Str("''")>>, <<Str(""), Str("{}")>>,
             <<Str("v"), Str("{'checked':'true','changed_at':'2024-01-15T10:00:00.000Z'}")>>,
             <<Str(""), Str("null")>>, <<Str(""), Str("oops")>>}

\* one <<text, value>> of Wire(k), decoded under each id, title and settings_str
WireSample(k) ==
    CASE k = "CheckboxType" -> <<Str("v"), Str("{'checked':'true'}")>>
      [] k = "DateType" -> <<Str("2024-01-15"), Str("{'date':'2024-01-15','time':null}")>>
      [] k = "DropdownType" -> <<Str("Done"), Str("{'ids':[1]}")>>
      [] k = "EmailType" -> <<Str("Al"), Str("{'email':'a@b.co','text':'Al'}")>>
      [] k \in {"ItemLinkType", "SubitemsType"} ->
            <<Str("b"), Str("{'linkedPulseIds':[{'linkedPulseId':12}]}")>>
      [] k = "LongTextType" -> <<Str("hello"), Str("{'text':'hello'}")>>
      [] k \in {"NumberType", "MirrorType"} -> <<Str("3"), Str("'3'")>>
      [] k = "PeopleType" -> <<Str("Al"), Str("{'personsAndTeams':[{'id':1,'kind':'person'}]}")>>
      [] k = "StatusType" -> <<Str("Done"), Str("{'index':0}")>>
      [] k = "TimelineType" ->
            <<Str("2024-01-15 - 2024-01-17"), Str("{'from':'2024-01-15','to':'2024-01-17'}")>>
      [] k = "WeekType" ->
            <<Str("w3"), Str("{'week':{'startDate':'2024-01-15','endDate':'2024-01-21'}}")>>
      [] OTHER -> <<Str("hello"), Str("'hello'")>>

\* settings_str of the column payloads decoded by a converter of class k
PayloadSettings(k) ==
    {Str("{'id':'','title':''}")} \cup
    CASE k = "DropdownType" -> {Str("{'labels':[{'id':1,'name':'Done'},{'id':2,'name':'Todo'}]}")}
      [] k = "ItemLinkType" -> {Str("{'allowMultipleValues':true}"),
                                Str("{'allowMultipleValues':false}"),
                                Str("{'allowMultipleItems':false}")}
      [] k = "StatusType" -> {Str("{'labels':{'0':'Done'}}")}
      [] k = "PeopleType" -> {Str("{'max_people_allowed':'1'}")}
      [] OTHER -> {}

\* the column payloads: every wire value under a plain envelope, and the sample
\* under an envelope without id and title and under each settings_str
Payloads(k) ==
    {ColumnValue(Str("c1"), Str("T"), tv[1], tv[2], None, None) : tv \in Wire(k)}
    \cup {ColumnValue(Str(""), Str(""), WireSample(k)[1], WireSample(k)[2], None, None)}
    \cup {ColumnValue(Str("c1"), Str("T"), WireSample(k)[1], WireSample(k)[2], st, None) :
            st \in PayloadSettings(k)}

\* the empty values
Empties == {None, Str(""), EmptyList, EmptyDict}

Monday15 == DateTime(14, 0, FALSE, 0)
Wednesday17 == DateTime(16, 0, FALSE, 0)

\* values an application hands to a converter of class k
AppValues(k) ==
    {Str("abc"), PyInt(1), Bool(TRUE)} \cup
    CASE k = "CheckboxType" -> {Str("false"), Bool(FALSE), PyInt(0), Dict([checked |-> Str("true")])}
      [] k = "DateType" -> {Monday15, DateTime(14, 3, FALSE, 0), DateTime(14, 22, TRUE, 0),
                            Dict([date |-> Str("2024-01-15"), time |-> None])}
      [] k = "DropdownType" -> {Enum("DONE"), List(<<Enum("DONE")>>), List(<<Str("Done")>>),
                                List(<<Enum("TODO"), Enum("DONE")>>), Str("{}")}
      [] k = "EmailType" -> {Email(Str("a@b.co"), Str("Al")), Email(Str("bad"), None),
                             Email(Str(""), None)}
      [] k \in {"ItemLinkType", "SubitemsType"} ->
            {Str("11"), List(<<Str("11"), Str("12")>>), List(<<Str("12"), Str("11")>>),
             Dict([item_ids |-> List(<<Str("12"), Str("11")>>)]),
             Dict([item_ids |-> List(<<Str("11"), Str("12")>>)]), Str("{}")}
      [] k = "LongTextType" -> {Str("hello"), Dict([text |-> Str("hello")]), Str("{}")}
      [] k \in {"NumberType", "MirrorType"} -> {PyInt(3), Float(35), Str("3"), PyInt(0)}
      [] k = "PeopleType" -> {PersonOrTeam(PyInt(1), "person"),
                              List(<<PersonOrTeam(PyInt(1), "person")>>), Str("{}")}
      [] k = "StatusType" -> {Str("Done"), Dict([index |-> PyInt(0)]), Str("{}")}
      [] k = "TimelineType" ->
            {Timeline(Monday15, Wednesday17), Timeline(Wednesday17, Monday15),
             Timeline(Monday15, Monday15),
             Dict([from |-> Str("2024-01-15"), to |-> Str("2024-01-17")]),
             Dict([from |-> Str("2024-01-15"), to |-> Str("2024-01-16")])}
      [] k = "WeekType" ->
            {Week(Wednesday17, None).v, Week(None, None).v,
             Dict([start |-> Wednesday17, end |-> Wednesday17]),
             Dict([week |-> Dict([startDate |-> Str("2024-01-15"), endDate |-> Str("2024-01-21")])]),
             Dict([week |-> Str("")])}
      [] OTHER -> {Str("hello"), Str("{}"), Dict([checked |-> Str("true")])}

---------------------------------------------------------------------------
(* The state machine *)

Call(op, arg, out) == [op |-> op, arg |-> arg, out |-> out]

Init ==
    /\ kind = "none"
    /\ metadata = <<>>
    /\ original_value = None
    /\ native_type = "None"
    /\ data_mapping = Unset
    /\ wrapped = "none"
    /\ local_offset = 0
    /\ last = Call("none", None, Ret(None))
    /\ returned_native = None
    /\ decoded_payload = None
    /\ app_week = Unset

\* the instance becomes self
Becomes(self) ==
    /\ kind' = self.kind
    /\ metadata' = self.metadata
    /\ original_value' = self.original_value
    /\ native_type' = self.native_type
    /\ data_mapping' = self.data_mapping
    /\ wrapped' = self.wrapped

Constructed == kind # "none"

\* k(id, title, ...) in a process running under some local time zone; a
\* constructor that raises leaves no instance
Construct ==
    /\ ~Constructed
    /\ \E k \in Kinds, id \in InitIds, title \in InitTitles :
       \E mapping \in InitMappings(k), multiple \in InitMultiple(k), type \in InitTypes(k) :
       \E off \in Offsets(k) :
       \E r \in {New(k, id, title, mapping, multiple, type)} :
             /\ IF r.out.k = "raise"
                THEN UNCHANGED <<kind, metadata, original_value, native_type,
                                 data_mapping, wrapped, local_offset>>
                ELSE Becomes(r.self) /\ local_offset' = off
             /\ last' = Call("__init__",
                             Dict([kind |-> Str(k), id |-> id, title |-> title,
                                   data_mapping |-> mapping]),
                             r.out)
    /\ UNCHANGED <<returned_native, decoded_payload, app_week>>

\* self.to_native(value, context)
DoToNative ==
    /\ Constructed
    /\ \E value \in Payloads(kind) \cup AppValues(kind) \cup Empties :
       \E r \in {ToNative(Self, value, local_offset)} :
          LET decoded == value.t = "ColumnValue" /\ r.out.k = "return"
          IN /\ Becomes(r.self)
             /\ last' = Call("to_native", value, r.out)
             /\ returned_native' = IF decoded THEN r.out.v ELSE returned_native
             /\ decoded_payload' = IF decoded THEN value ELSE decoded_payload
    /\ UNCHANGED <<local_offset, app_week>>

\* self.to_primitive(value, context)
DoToPrimitive ==
    /\ Constructed
    /\ \E value \in AppValues(kind) \cup {None, original_value, returned_native} :
          last' = Call("to_primitive", value, ToPrimitive(Self, value, local_offset))
    /\ UNCHANGED <<kind, metadata, original_value, native_type, data_mapping, wrapped,
                   local_offset, returned_native, decoded_payload, app_week>>

\* self.value_changed(value) with the slip of taking the candidate as the new baseline
DoValueChanged_rebasing ==
    /\ Constructed
    /\ \E value \in AppValues(kind) \cup {None, original_value, returned_native} :
          /\ last' = Call("value_changed", value, ValueChanged(Self, value))
          /\ original_value' = value
    /\ UNCHANGED <<kind, metadata, native_type, data_mapping, wrapped,
                   local_offset, returned_native, decoded_payload, app_week>>

\* self.value_changed(value)
DoValueChanged ==
    /\ Constructed
    /\ \E value \in AppValues(kind) \cup {None, original_value, returned_native} :
          last' = Call("value_changed", value, ValueChanged(Self, value))
    /\ UNCHANGED <<kind, metadata, original_value, native_type, data_mapping, wrapped,
                   local_offset, returned_native, decoded_payload, app_week>>

\* the validate_* hook of the instance's class
DoValidate ==
    /\ Constructed
    /\ kind \in ValidatedKinds
    /\ \E value \in AppValues(kind) \cup {None, original_value, returned_native} :
          last' = Call("validate", value, Validate(Self, value))
    /\ UNCHANGED <<kind, metadata, original_value, native_type, data_mapping, wrapped,
                   local_offset, returned_native, decoded_payload, app_week>>

Next == Construct \/ DoToNative \/ DoToPrimitive \/ DoValueChanged \/ DoValidate

Spec == Init /\ [][Next]_vars

---------------------------------------------------------------------------
(* A Week object in the hands of the application *)

\* the dates the application supplies: two weeks of days, at midnight and at 09:00
WeekDates == {DateTime(d, h, FALSE, 0) : d \in 7 .. 20, h \in {0, 9}}

\* Week(start, end)
WeekNew ==
    /\ \E start \in WeekDates \cup {None}, end \in WeekDates \cup {None} :
       \E r \in {Week(start, end)} :
          /\ app_week' = IF r.k = "return" THEN r.v ELSE app_week
          /\ last' = Call("Week", Dict([start |-> start, end |-> end]),
                          IF r.k = "return" THEN Ret(None) ELSE r)
    /\ UNCHANGED <<kind, metadata, original_value, native_type, data_mapping, wrapped,
                   local_offset, returned_native, decoded_payload>>

\* week.start = value
WeekSetStart ==
    /\ app_week # Unset
    /\ \E value \in WeekDates \cup {None} :
       \E r \in {Week_calculate_dates(app_week, value)} :
          /\ app_week' = IF r.k = "return" THEN r.v ELSE app_week
          /\ last' = Call("Week.start", value, IF r.k = "return" THEN Ret(None) ELSE r)
    /\ UNCHANGED <<kind, metadata, original_value, native_type, data_mapping, wrapped,
                   local_offset, returned_native, decoded_payload>>

\* week.end = value
WeekSetEnd ==
    /\ app_week # Unset
    /\ \E value \in WeekDates \cup {None} :
       \E r \in {Week_calculate_dates(app_week, value)} :
          /\ app_week' = IF r.k = "return" THEN r.v ELSE app_week
          /\ last' = Call("Week.end", value, IF r.k = "return" THEN Ret(None) ELSE r)
    /\ UNCHANGED <<kind, metadata, original_value, native_type, data_mapping, wrapped,
                   local_offset, returned_native, decoded_payload>>

WeekNext == WeekNew \/ WeekSetStart \/ WeekSetEnd

WeekSpec == Init /\ [][WeekNext]_vars

---------------------------------------------------------------------------
(* Properties *)

IsPayload(x) == x.t = "ColumnValue"
Returned(call) == call.out.k = "return"
\* None or the converter's null value
IsEmptyFor(k, x) == PyEq(x, None) \/ PyEq(x, null_value(k))
\* the decoded value of a payload, without its changed_at field
DecodedWire(p) == Popped(JsonLoads(p.v.value).v)
\* the payload's settings and value are JSON the base decode accepts
BaseDecodes(p) ==
    /\ (Truthy(p.v.settings_str) =>
            /\ JsonLoads(p.v.settings_str).k = "return"
            /\ IsDict(JsonLoads(p.v.settings_str).v))
    /\ JsonLoads(p.v.value).k = "return"

\* C1: once x is the stored baseline, value_changed(x) returns False, for every
\* converter and every value x a decode has stored.
C1_Reflexive ==
    (/\ last.op = "value_changed"
     /\ decoded_payload # None
     /\ original_value # None
     /\ last.arg = original_value)
    => last.out = Ret(Bool(FALSE))

\* the payload values that match the wire schema of class k
SchemaWire(k) ==
    CASE k = "CheckboxType" -> {Str("{'checked':'true'}")}
      [] k = "LongTextType" -> {Str("{'text':'hello'}")}
      [] k = "EmailType" -> {Str("{'email':'a@b.co','text':'Al'}")}
      [] k = "TimelineType" -> {Str("{'from':'2024-01-15','to':'2024-01-17'}")}
      [] k = "WeekType" -> {Str("{'week':{'startDate':'2024-01-15','endDate':'2024-01-21'}}")}
      [] k = "DateType" -> {Str("{'date':'2024-01-15','time':null}")}
      [] k = "NumberType" -> {Str("'3'"), Str("'3.5'")}
      [] OTHER -> {}

\* C2: for every converter other than Subitems and Mirror, to_primitive of the
\* value decoded from a payload that matches the wire schema returns a wire value
\* equal to the payload's decoded value.
C2_RoundTrip ==
    /\ (/\ last.op = "to_native"
        /\ kind \notin {"SubitemsType", "MirrorType"}
        /\ IsPayload(last.arg)
        /\ last.arg.v.value \in SchemaWire(kind))
       => Returned(last)
    /\ (/\ last.op = "to_primitive"
        /\ kind \notin {"SubitemsType", "MirrorType"}
        /\ decoded_payload # None
        /\ decoded_payload.v.value \in SchemaWire(kind)
        /\ last.arg = returned_native)
       => last.out = Ret(DecodedWire(decoded_payload))

\* the classes that inherit MondayType.value_changed
DefaultPolicyKinds == {"MondayType", "MondaySimpleType", "MondayComplexType", "TextType"}

\* C3: the default value_changed returns True when exactly one of candidate and
\* baseline is empty, and candidate != baseline otherwise; an empty candidate
\* against an empty baseline is never reported as changed.
C3_DefaultPolicy ==
    (last.op = "value_changed" /\ kind \in DefaultPolicyKinds)
    => LET candidate_empty == IsEmptyFor(kind, last.arg)
           baseline_empty == IsEmptyFor(kind, original_value)
       IN /\ (candidate_empty # baseline_empty) => last.out = Ret(Bool(TRUE))
          /\ (candidate_empty = baseline_empty) =>
                last.out = Ret(Bool(~PyEq(last.arg, original_value)))
          /\ (candidate_empty /\ baseline_empty) => last.out = Ret(Bool(FALSE))

\* C4 as claimed: original_value is the native value returned by the most recent
\* to_native call on a column payload, None if there was none.
C4_BaselineIsReturnedNative == Constructed => original_value = returned_native

\* C4 as amended: a to_native call on a raw or empty value leaves original_value
\* alone; a call on a payload replaces it by the value the _convert hook returned,
\* which is the value the call returns for the classes that inherit to_native and
\* the decoded wire value for Timeline and Week (also when the call then raises
\* or returns None); a payload call that raises before that leaves it alone.
C4_Baseline ==
    [][last'.op = "to_native" =>
        IF ~IsPayload(last'.arg) THEN original_value' = original_value
        ELSE IF kind \in {"TimelineType", "WeekType"}
             THEN original_value' = IF BaseDecodes(last'.arg) THEN DecodedWire(last'.arg)
                                    ELSE original_value
        ELSE original_value' = IF Returned(last') THEN last'.out.v ELSE original_value]_vars

\* C4 witness: a Timeline payload was decoded into a Timeline object while the
\* baseline holds the decoded wire value.
C4_Witness ==
    /\ last.op = "to_native" /\ IsPayload(last.arg) /\ kind = "TimelineType"
    /\ Returned(last) /\ original_value = DecodedWire(last.arg)
    /\ original_value # last.out.v

NonEmptyEntry(m, key) == key \in DOMAIN m /\ Truthy(m[key])

\* C5: a constructor given neither id nor title raises MondayTypeError, and the
\* metadata of a constructed converter always holds a non-empty id or title.
C5_Identity ==
    /\ (last.op = "__init__" /\ ~Truthy(Get(last.arg, "id")) /\ ~Truthy(Get(last.arg, "title")))
            => last.out = Raise("MondayTypeError")
    /\ Constructed => NonEmptyEntry(metadata, "id") \/ NonEmptyEntry(metadata, "title")

\* the concrete converters: all classes but the three bases
ConcreteKinds == Kinds \ {"MondayType", "MondaySimpleType", "MondayComplexType"}

\* C6: for a concrete converter, to_primitive of an empty value returns null_value
\* and to_primitive of a non-empty value never returns the base's None.
C6_EmptyEncoding ==
    (last.op = "to_primitive" /\ kind \in ConcreteKinds)
    => /\ ~Truthy(last.arg) => last.out = Ret(null_value(kind))
       /\ Truthy(last.arg) => last.out # Ret(None)

\* C7: to_native of None, '' or [] returns that value, raises nothing and leaves
\* metadata and original_value alone, for every converter.
C7_EmptyPassthrough ==
    [][(last'.op = "to_native" /\ last'.arg \in {None, Str(""), EmptyList})
        => /\ last'.out = Ret(last'.arg)
           /\ metadata' = metadata
           /\ original_value' = original_value]_vars

\* C8: to_native of a non-empty value that is no payload returns the cast of the
\* value when its type is in allow_casts and the value itself otherwise, and
\* leaves metadata and original_value alone.
C8_RawDecode ==
    [][(last'.op = "to_native" /\ ~IsPayload(last'.arg) /\ Truthy(last'.arg))
        => /\ last'.out = IF last'.arg.t \in allow_casts(kind) THEN Cast(Self, last'.arg)
                          ELSE Ret(last'.arg)
           /\ metadata' = metadata
           /\ original_value' = original_value]_vars

\* the wire value marks the box as checked
MarksChecked(wire) == IsDict(wire) /\ HasKey(wire, "checked") /\ Get(wire, "checked") = Str("true")

\* C9: a Checkbox decodes {} to False and {"checked":"true"} to True, encodes True
\* to {"checked":"true"} and False to null_value, and a decode returns a boolean
\* that is True only when the wire value marks the box as checked.
C9_Checkbox ==
    kind = "CheckboxType" =>
       /\ (last.op = "to_native" /\ IsPayload(last.arg) /\ BaseDecodes(last.arg)) =>
             /\ Returned(last) /\ last.out.v.t = "bool"
             /\ DecodedWire(last.arg) = EmptyDict => last.out.v = Bool(FALSE)
             /\ DecodedWire(last.arg) = Dict([checked |-> Str("true")]) => last.out.v = Bool(TRUE)
             /\ last.out.v = Bool(TRUE) => MarksChecked(DecodedWire(last.arg))
       /\ (last.op = "to_primitive" /\ last.arg = Bool(TRUE)) =>
             last.out = Ret(Dict([checked |-> Str("true")]))
       /\ (last.op = "to_primitive" /\ last.arg = Bool(FALSE)) => last.out = Ret(null_value(kind))

\* C10: a Number decodes integral text to an int and sets native_type to int,
\* non-integral numeric text to a float and sets native_type to float, empty text
\* to None, never raises on text, and validate_number rejects a value that is
\* neither int nor float.
C10_Number ==
    kind = "NumberType" =>
       /\ (last.op = "to_native" /\ IsPayload(last.arg) /\ BaseDecodes(last.arg)
           /\ IsStr(DecodedWire(last.arg))) =>
             /\ Returned(last)
             /\ DecodedWire(last.arg) = Str("3") => last.out.v = PyInt(3) /\ native_type = "int"
             /\ DecodedWire(last.arg) = Str("3.5") =>
                    last.out.v = Float(35) /\ native_type = "float"
             /\ DecodedWire(last.arg) = Str("") => last.out.v = None
       /\ (last.op = "validate" /\ last.arg.t \notin {"int", "float"}) => last.out = Invalid

\* a decoded wire value {"date": D, "time": null} with D a calendar date
DateOnly(wire) ==
    /\ IsDict(wire) /\ HasKey(wire, "date") /\ HasKey(wire, "time")
    /\ Get(wire, "time") = None
    /\ ParseDate(Get(wire, "date")).k = "return"

\* C11: under every local UTC offset a Date decodes {"date": D, "time": null} to
\* the naive datetime at midnight of D, and to_primitive of that value returns
\* {"date": D, "time": None} again.
C11_DateOnlyRoundTrip ==
    kind = "DateType" =>
       /\ (last.op = "to_native" /\ IsPayload(last.arg) /\ BaseDecodes(last.arg)
           /\ DateOnly(DecodedWire(last.arg))) =>
             last.out = ParseDate(Get(DecodedWire(last.arg), "date"))
       /\ (last.op = "to_primitive" /\ decoded_payload # None
           /\ DateOnly(DecodedWire(decoded_payload)) /\ last.arg = returned_native) =>
             last.out = Ret(DecodedWire(decoded_payload))

\* the week w spans Monday to Sunday around the date d, at d's time of day
Snapped(w, d) ==
    /\ w.v.start.t = "datetime" /\ w.v.end.t = "datetime"
    /\ Weekday(w.v.start) = 0
    /\ w.v.start.v.day <= d.v.day /\ d.v.day <= w.v.start.v.day + 6
    /\ w.v.start.v.hour = d.v.hour
    /\ w.v.end = PlusDays(w.v.start, 6)
    /\ w.v.week_number = PyInt(IsoWeek(w.v.start))

\* C12: after Week(date, ...) and after every assignment of a date to start or
\* to end, start is the Monday of the week of that date, end is start plus 6
\* days and week_number is the ISO week number of start.
C12_WeekSnapping ==
    /\ (last.op = "Week" /\ Get(last.arg, "start").t = "datetime")
            => Returned(last) /\ Snapped(app_week, Get(last.arg, "start"))
    /\ (last.op \in {"Week.start", "Week.end"} /\ last.arg.t = "datetime")
            => Returned(last) /\ Snapped(app_week, last.arg)

\* C12 witness: a Wednesday was assigned to end of a Week built in another week,
\* and start moved to the Monday before it.
C12_Witness ==
    /\ last.op = "Week.end" /\ last.arg = DateTime(16, 9, FALSE, 0)
    /\ app_week.v.start = DateTime(14, 9, FALSE, 0)
    /\ app_week.v.end = DateTime(20, 9, FALSE, 0)

\* C13: a Dropdown with a data_mapping decodes a text of mapped labels to the
\* mapped values in label order and a text with an unmapped label to the empty
\* default list; without a data_mapping it decodes to the list of label strings;
\* the decode of a payload never raises.
C13_DropdownDecode ==
    (kind = "DropdownType" /\ last.op = "to_native" /\ IsPayload(last.arg)
     /\ BaseDecodes(last.arg)) =>
       /\ Returned(last)
       /\ IsStr(last.arg.v.text) =>
             LET labels == Split(last.arg.v.text).v.v
             IN IF data_mapping = Unset \/ ~Truthy(data_mapping)
                THEN last.out.v = List(labels)
                ELSE IF \A i \in DOMAIN labels : HasKey(data_mapping, labels[i].v)
                     THEN last.out.v = List([i \in DOMAIN labels |->
                                                Get(data_mapping, labels[i].v)])
                     ELSE last.out.v = EmptyList

\* the datetime a is later than the datetime b (both naive)
Later(a, b) == a.v.day > b.v.day \/ (a.v.day = b.v.day /\ a.v.hour > b.v.hour)

\* C14: validate_timeline raises ValidationError for a Timeline whose from_date
\* is later than its to_date and accepts a Timeline whose from_date is equal to
\* or earlier than its to_date.
C14_TimelineValidation ==
    (kind = "TimelineType" /\ last.op = "validate" /\ last.arg.t = "Timeline") =>
        last.out = IF Later(last.arg.v.from_date, last.arg.v.to_date) THEN Invalid ELSE Valid

\* x carries item ids: a list of ids or a wire dict {'item_ids': [...]}
HasItemIds(x) == IsList(x) \/ (IsDict(x) /\ HasKey(x, "item_ids") /\ IsList(Get(x, "item_ids")))
\* the set of those ids
ItemIdSet(x) ==
    LET ids == IF IsList(x) THEN x.v ELSE Get(x, "item_ids").v
    IN {ids[i] : i \in DOMAIN ids}

\* C15: an ItemLink built for multiple values reports a change exactly when the
\* candidate's ids and the baseline's ids differ as sets; one built for a single
\* value reports a change exactly when the candidate id differs from the baseline id.
C15_ItemLinkChanged ==
    (kind = "ItemLinkType" /\ last.op = "value_changed") =>
       /\ (native_type = "list" /\ IsList(original_value) /\ HasItemIds(last.arg)) =>
             last.out = Ret(Bool(ItemIdSet(last.arg) # ItemIdSet(original_value)))
       /\ (native_type = "str" /\ IsStr(original_value) /\ IsStr(last.arg)) =>
             last.out = Ret(Bool(last.arg # original_value))

\* C16: in every state of an ItemLink the multiple_values property reports the
\* mode given to the constructor; in single mode a decode returns one id or None
\* and validation rejects a list; in multi mode a decode returns a list of ids
\* and validation rejects a non-empty value that is no list.
C16_ItemLinkMultiplicity ==
    kind = "ItemLinkType" =>
       LET multi == native_type = "list"
       IN /\ multiple_values(Self) = Ret(Bool(multi))
          /\ (last.op = "to_native" /\ IsPayload(last.arg) /\ BaseDecodes(last.arg)) =>
                /\ Returned(last)
                /\ IF multi THEN IsList(last.out.v)
                   ELSE IsStr(last.out.v) \/ last.out.v = None
          /\ (last.op = "validate" /\ ~multi /\ IsList(last.arg)) => last.out = Invalid
          /\ (last.op = "validate" /\ multi /\ Truthy(last.arg) /\ ~IsList(last.arg)) =>
                last.out = Invalid

\* the payload p lacks what a converter of class k reads from it
Malformed(k, p) ==
    LET wire == DecodedWire(p)
        lacks(key) == ~(IsDict(wire) /\ HasKey(wire, key))
    IN CASE k = "TimelineType" -> lacks("from") \/ lacks("to")
         [] k = "CheckboxType" -> lacks("checked")
         [] k = "DateType" -> lacks("date")
         [] k = "DropdownType" -> ~IsStr(p.v.text)
         [] k = "ItemLinkType" -> lacks("linkedPulseIds")
         [] k = "WeekType" -> lacks("week")
         [] OTHER -> FALSE

\* C17: on a payload without the expected fields Timeline raises MondayTypeError,
\* while Checkbox, Date, Dropdown, ItemLink and Week return their fallback
\* (False, None, the empty default list, an empty list or None, None) without
\* raising and store that fallback as the baseline.
C17_DecodeFailurePolicy ==
    (last.op = "to_native" /\ IsPayload(last.arg) /\ BaseDecodes(last.arg)
     /\ Malformed(kind, last.arg)) =>
        CASE kind = "TimelineType" -> last.out = Raise("MondayTypeError")
          [] kind = "CheckboxType" ->
                last.out = Ret(Bool(FALSE)) /\ original_value = Bool(FALSE)
          [] kind = "DateType" -> last.out = Ret(None) /\ original_value = None
          [] kind = "DropdownType" -> last.out = Ret(EmptyList) /\ original_value = EmptyList
          [] kind = "ItemLinkType" ->
                last.out \in {Ret(EmptyList), Ret(None)} /\ original_value = last.out.v
          [] kind = "WeekType" -> last.out = Ret(None) /\ original_value = None
          [] OTHER -> TRUE

\* C18: a call of to_primitive, of a validate_* hook or of value_changed, whether
\* it returns or raises, leaves metadata and original_value as they were.
C18_Pure ==
    [][last'.op \in {"to_primitive", "validate", "value_changed"} =>
          metadata' = metadata /\ original_value' = original_value]_vars

\* C18 witness: value_changed raised on a converter that holds decoded metadata
\* and a baseline.
C18_Witness ==
    /\ last.op = "value_changed" /\ last.out.k = "raise"
    /\ original_value # None
    /\ "changed_at" \in DOMAIN metadata

\* C19: a Mirror decodes a payload to what a converter of the wrapped class with
\* the mirror's id and title returns for it (for Number, after the payload's
\* value is replaced by the JSON encoding of its text), encodes a value to what
\* that converter's to_primitive returns, and never reports a change.
C19_MirrorDelegation ==
    kind = "MirrorType" =>
       LET target == MirrorType_get_monday_type(Self)
           payload == IF wrapped = "NumberType"
                      THEN [last.arg EXCEPT !.v.value = JsonDumps(last.arg.v.text)]
                      ELSE last.arg
       IN /\ (last.op = "to_native" /\ IsPayload(last.arg) /\ target.out.k = "return") =>
                last.out = ToNative(target.self, payload, local_offset).out
          /\ (last.op = "to_primitive" /\ target.out.k = "return") =>
                last.out = ToPrimitive(target.self, last.arg, local_offset)
          /\ last.op = "value_changed" => last.out = Ret(Bool(FALSE))

\* C20: validate_email raises ValidationError for every value that is not an
\* Email and for every Email whose address is empty or does not fully match the
\* email pattern, and accepts exactly the Emails whose address matches; an
\* Email built without text has its address as text.
C20_EmailValidation ==
    /\ (kind = "EmailType" /\ last.op = "validate") =>
          LET accepted == /\ last.arg.t = "Email"
                          /\ Truthy(last.arg.v.email)
                          /\ EmailMatches(last.arg.v.email) = Ret(Bool(TRUE))
          IN last.out = IF accepted THEN Valid ELSE Invalid
    /\ \A e \in {Str("a@b.co"), Str("bad"), Str("")} : Email(e, None).v.text = e

\* the changed_at field of a payload's decoded value, None when the value
\* carries none or is no object
StampOf(p) ==
    LET loaded == JsonLoads(p.v.value).v
    IN IF IsDict(loaded) /\ HasKey(loaded, "changed_at") THEN Get(loaded, "changed_at") ELSE None

\* C21: after a payload decode, metadata['changed_at'] is the changed_at field of
\* that payload's value, or null when the value carries none or is a plain
\* string; a timestamp of an earlier decode is never retained, and the value
\* the convert hook received, returned unchanged by the base hook, has no
\* changed_at field.
C21_TimestampFreshness ==
    (last.op = "to_native" /\ IsPayload(last.arg) /\ Returned(last)) =>
       /\ (IF "changed_at" \in DOMAIN metadata THEN metadata["changed_at"] ELSE None)
             = StampOf(last.arg)
       /\ ~(IsDict(last.out.v) /\ HasKey(last.out.v, "changed_at"))

====
